---- MODULE Spec2Model ----
(***************************************************************************)
(* Model of the attachment pipeline of agent-chat-ui:                       *)
(*   - the useFileUpload hook (file-select, window drop, paste, remove,     *)
(*     reset) with its validity and duplicate checks,                       *)
(*   - fileToContentBlock (the object-store variant) with its asynchronous  *)
(*     file read and upload,                                                *)
(*   - the /api/upload POST route and the object store behind it.           *)
(* File names are sequences of one-character strings so that toLowerCase,   *)
(* endsWith and split('.').pop() are computed as the code computes them.    *)
(***************************************************************************)
EXTENDS Integers, Sequences, FiniteSets, TLC

\* ------------------------------------------------------------------ bounds
\* files offered to the hook over all its handler calls
MaxFiles == 2
\* files of the one batch offered to a hook mounted with initialBlocks
MaxBatchFiles == 3
\* POSTs made by clients other than the hook
MaxRequests == 2
\* months the server's clock advances
MaxTicks == 1
\* window dragenter events not yet matched by a dragleave
MaxDrag == 2

\* --------------------------------------------------------- string helpers
\* JavaScript's undefined, where a string and where a name is expected
Undefined == "undefined"
UndefinedName == <<"undefined">>

\* String.prototype.toLowerCase, one character
LowerChar(c) ==
    CASE c = "D" -> "d"
      [] c = "W" -> "w"
      [] c = "G" -> "g"
      [] c = "X" -> "x"
      [] c = "F" -> "f"
      [] OTHER -> c

toLowerCase(s) == [i \in 1..Len(s) |-> LowerChar(s[i])]

endsWith(s, suffix) ==
    /\ Len(s) >= Len(suffix)
    /\ SubSeq(s, Len(s) - Len(suffix) + 1, Len(s)) = suffix

\* index of the last '.' of s, 0 when there is none
LastDot(s) ==
    LET dots == {i \in 1..Len(s) : s[i] = "."}
    IN  IF dots = {} THEN 0 ELSE CHOOSE i \in dots : \A j \in dots : j <= i

\* s.split('.').pop(): the piece after the last '.', the whole string when
\* there is no '.'
splitPop(s) == SubSeq(s, LastDot(s) + 1, Len(s))

\* a possibly missing property of an object (b.mime_type, b.metadata?.filename)
Get(r, f) == IF f \in DOMAIN r THEN r[f] ELSE Undefined
GetName(r, f) == IF f \in DOMAIN r THEN r[f] ELSE UndefinedName

DWG == <<"d", "w", "g">>
DXF == <<"d", "x", "f">>
DotDWG == <<".">> \o DWG
DotDXF == <<".">> \o DXF
DotPY == <<".", "p", "y">>

\* ------------------------------------------------------ the hook's tables
SUPPORTED_FILE_TYPES ==
    { "image/jpeg", "image/png", "image/gif", "image/webp",
      "application/pdf",
      "application/acad", "image/vnd.dwg", "application/dwg", "image/x-dwg",
      "application/x-dwg", "image/x-autocad", "application/octet-stream",
      "application/dxf", "image/vnd.dxf", "text/plain" }

\* useFileUpload.isCADFile: by the piece after the last '.'
isCADFile(file) ==
    LET extension == splitPop(toLowerCase(file.name))
    IN  extension = DWG \/ extension = DXF

isValidFile(file) ==
    \/ isCADFile(file)
    \/ file.type \in SUPPORTED_FILE_TYPES
    \/ /\ file.type = "application/octet-stream"
       /\ LET extension == toLowerCase(splitPop(file.name))
          IN  extension = DWG \/ extension = DXF

isDuplicate(file, blocks) ==
    IF file.type = "application/pdf"
    THEN \E k \in 1..Len(blocks) :
            /\ blocks[k].type = "file"
            /\ Get(blocks[k], "mime_type") = "application/pdf"
            /\ GetName(blocks[k].metadata, "filename") = file.name
    ELSE IF isCADFile(file)
    THEN \E k \in 1..Len(blocks) :
            /\ blocks[k].type = "file"
            /\ GetName(blocks[k].metadata, "filename") = file.name
    ELSE IF isValidFile(file)
    THEN \E k \in 1..Len(blocks) :
            \/ blocks[k].type = "image" /\ GetName(blocks[k].metadata, "name") = file.name
            \/ blocks[k].type = "file" /\ GetName(blocks[k].metadata, "filename") = file.name
    ELSE FALSE

isDuplicatePaste(file, blocks) ==
    IF file.type = "application/pdf"
    THEN \E k \in 1..Len(blocks) :
            /\ blocks[k].type = "file"
            /\ Get(blocks[k], "mime_type") = "application/pdf"
            /\ GetName(blocks[k].metadata, "filename") = file.name
    ELSE IF isValidFile(file)
    THEN \E k \in 1..Len(blocks) :
            \/ blocks[k].type = "image" /\ GetName(blocks[k].metadata, "name") = file.name
            \/ blocks[k].type = "file" /\ GetName(blocks[k].metadata, "filename") = file.name
    ELSE FALSE

\* ------------------------------------------- fileToContentBlock's tables
supportedImageTypes == {"image/jpeg", "image/png", "image/gif", "image/webp"}

supportedCADTypes ==
    { "application/acad", "image/vnd.dwg", "application/dwg", "image/x-dwg",
      "application/dxf", "image/vnd.dxf", "application/octet-stream",
      "application/x-dwg", "image/x-autocad" }

supportedPythonTypes == {"text/x-python", "application/x-python-code"}

supportedFileTypes ==
    supportedImageTypes \cup {"application/pdf"} \cup supportedCADTypes
        \cup supportedPythonTypes \cup {"text/plain"}

\* fileToContentBlock.isCADFile: by the suffix of the lower-cased name
builderIsCADFile(file) ==
    LET fileName == toLowerCase(file.name)
    IN  endsWith(fileName, DotDWG) \/ endsWith(fileName, DotDXF)

isPythonFile(file) == endsWith(toLowerCase(file.name), DotPY)

isSupported(file) ==
    file.type \in supportedFileTypes \/ builderIsCADFile(file) \/ isPythonFile(file)

\* the branch fileToContentBlock takes once the file has been read; the
\* tests are made in the order of the code
BuildBranch(file) ==
    IF file.type \in supportedImageTypes THEN "image"
    ELSE IF file.type = "application/pdf" THEN "pdf"
    ELSE IF \/ file.type \in supportedCADTypes
            \/ builderIsCADFile(file)
            \/ file.type \in supportedPythonTypes
            \/ isPythonFile(file) THEN "upload"
    ELSE "unexpected"

\* fileToBase64 of the file: the base64 text of its bytes
Base64Of(file) == <<"b64", file.bytes>>

ImageBlock(file) ==
    [ type |-> "image", source_type |-> "base64", mime_type |-> file.type,
      data |-> Base64Of(file), metadata |-> [name |-> file.name] ]

PdfBlock(file) ==
    [ type |-> "file", source_type |-> "base64", mime_type |-> "application/pdf",
      data |-> Base64Of(file), metadata |-> [filename |-> file.name] ]

\* (variant) a remote-reference block that carries the data as well
S3BlockWithData(s3Result) ==
    [ type |-> "file", source_type |-> "s3",
      s3_key |-> s3Result.s3_key, s3_bucket |-> s3Result.s3_bucket,
      s3_region |-> s3Result.s3_region, metadata |-> s3Result.metadata,
      data |-> <<"b64", s3Result.metadata.original_name>> ]

\* the media type the inline variant of fileToContentBlock records for a CAD
\* file: the declared one, or one derived from the extension when the
\* declared one is empty or text/plain
inlineMimeType(file) ==
    LET fileName == toLowerCase(file.name)
    IN  IF file.type = "" \/ file.type = "text/plain"
        THEN IF endsWith(fileName, DotDWG) THEN "application/acad"
             ELSE IF endsWith(fileName, DotDXF) THEN "application/dxf"
             ELSE file.type
        ELSE file.type

S3Block(s3Result) ==
    [ type |-> "file", source_type |-> "s3",
      s3_key |-> s3Result.s3_key, s3_bucket |-> s3Result.s3_bucket,
      s3_region |-> s3Result.s3_region, metadata |-> s3Result.metadata ]

\* ------------------------------------------------------- the upload route
BUCKET_NAME == "keystone-user-content-files"
APP_AWS_REGION == "eu-north-1"

\* (variant) a validation that only asks for a file part
PostAcceptsAnyName(parts) == parts # <<>>

\* the route's validation; parts is the sequence of the form's 'file' parts,
\* empty when formData.get('file') is null
PostAccepts(parts) ==
    /\ parts # <<>>
    /\ LET fileName == toLowerCase(parts[1].name)
       IN  endsWith(fileName, DotDWG) \/ endsWith(fileName, DotDXF)

fileExtensionOf(file) == toLowerCase(splitPop(file.name))

\* String(n).padStart(2, '0') for 1 <= n <= 12, as its two digits
padStart2(n) == IF n < 10 THEN <<0, n>> ELSE <<n \div 10, n % 10>>

\* `${uniqueId}.${fileExtension}`
GeneratedFilename(uniqueId, fileExtension) == <<uniqueId, ".">> \o fileExtension

\* uuidv4(): the n-th identifier drawn is different from all drawn before
uuidv4(n) == ToString(n)

\* (variant) a key without the generated identifier
S3KeyWithoutId(year, month, uniqueId, fileExtension) ==
    << "user-uploads", "drawings", year, month, <<"upload", ".">> \o fileExtension >>

\* the store key as the sequence of its '/'-separated segments
S3Key(year, month, uniqueId, fileExtension) ==
    << "user-uploads", "drawings", year, month,
       GeneratedFilename(uniqueId, fileExtension) >>

ContentTypeOf(file) == IF file.type = "" THEN "application/octet-stream" ELSE file.type

UploadResult(file, key, uniqueId, date) ==
    [ s3_key |-> key, s3_bucket |-> BUCKET_NAME, s3_region |-> APP_AWS_REGION,
      metadata |-> [ filename |-> GeneratedFilename(uniqueId, fileExtensionOf(file)),
                     original_name |-> file.name,
                     size |-> file.size,
                     mime_type |-> ContentTypeOf(file),
                     uploaded_at |-> date ] ]

\* ------------------------------------------------------------ the inputs
PNG_NAME == <<"a", ".", "p", "n", "g">>
PDF_NAME == <<"a", ".", "p", "d", "f">>
DWG_NAME == <<"a", ".", "d", "w", "g">>
EXE_NAME == <<"a", ".", "e", "x", "e">>

File(name, type) == [name |-> name, type |-> type, size |-> Len(name), bytes |-> name]

\* the files a user offers in the hook's specification: an image, a PDF, a
\* CAD drawing without declared media type and an unsupported file
Files ==
    { File(PNG_NAME, "image/png"), File(PDF_NAME, "application/pdf"),
      File(DWG_NAME, ""), File(EXE_NAME, "application/x-msdownload") }

\* all sequences over S of length 1..n
SeqsUpTo(S, n) == UNION {[1..k -> S] : k \in 1..n}

\* the lists of files a handler may be called with
FileLists(S, n) == IF n < 1 THEN {} ELSE SeqsUpTo(S, n)

\* ---------------------------------------------------------------- state
VARIABLES
    contentBlocks,  \* useState: the attachments of the message being written
    origin,         \* history: for each block, the batch and the build it came from
    batches,        \* the handler invocations, each with its builds
    requests,       \* the POSTs received by /api/upload
    store,          \* the objects put into the bucket, in the order of the puts
    nextUuid,       \* number of identifiers uuidv4 has drawn, plus one
    now,            \* the server's clock: [year, month0], month0 as Date.getMonth()
    ticks,          \* number of months the clock has advanced
    dragCounter,    \* useRef: window dragenter minus dragleave
    dragOver,       \* useState: the drop zone is highlighted
    resetAt         \* history: number of batches started when resetBlocks last
                    \* ran, -1 while it never ran

vars == << contentBlocks, origin, batches, requests, store, nextUuid, now, ticks,
           dragCounter, dragOver, resetAt >>

hookVars == << contentBlocks, origin, batches, dragCounter, dragOver, resetAt >>
routeVars == << requests, store, nextUuid >>
clockVars == << now, ticks >>

NoToasts ==
    [ invalid |-> 0, duplicate |-> 0, unsupported |-> 0, unexpected |-> 0,
      info |-> 0, success |-> 0, uploadFailed |-> 0, batchError |-> 0 ]

Init ==
    /\ contentBlocks = <<>>
    /\ origin = <<>>
    /\ batches = <<>>
    /\ requests = <<>>
    /\ store = <<>>
    /\ nextUuid = 1
    /\ now = [year |-> 2025, month0 |-> 8]
    /\ ticks = 0
    /\ dragCounter = 0
    /\ dragOver = FALSE
    /\ resetAt = -1

\* ------------------------------------------------- the handlers' partition
ValidOf(files) == SelectSeq(files, isValidFile)

InvalidOf(files) == LET Invalid(f) == ~isValidFile(f) IN SelectSeq(files, Invalid)

\* the duplicate test of the handler: handlePaste has its own
DuplicateTest(handler, file, blocks) ==
    IF handler = "paste" THEN isDuplicatePaste(file, blocks) ELSE isDuplicate(file, blocks)

DuplicateOf(handler, files, blocks) ==
    LET Dup(f) == DuplicateTest(handler, f, blocks) IN SelectSeq(ValidOf(files), Dup)

UniqueOf(handler, files, blocks) ==
    LET Uniq(f) == ~DuplicateTest(handler, f, blocks) IN SelectSeq(ValidOf(files), Uniq)

\* (variant) one toast per file of the list
NoticePerFile(list) == Len(list)

\* number of toasts one `if (list.length > 0) toast.error(...)` emits
NoticeCount(list) == IF Len(list) > 0 THEN 1 ELSE 0

\* fileToContentBlock up to its first await: an unsupported file is rejected
\* with a toast, the others start reading
StartBuild(file) ==
    IF isSupported(file)
    THEN [file |-> file, pc |-> "reading", reason |-> "", result |-> <<>>, req |-> 0]
    ELSE [file |-> file, pc |-> "rejected", reason |-> "unsupported", result |-> <<>>,
          req |-> 0]

\* (variant) a join that waits for every build and keeps what was built
PromiseAllSettled(builds) ==
    IF \A k \in 1..Len(builds) : builds[k].pc \in {"resolved", "rejected"}
    THEN "fulfilled" ELSE "pending"

\* Promise.all over the builds: rejected as soon as one is, fulfilled when
\* every one is
PromiseAll(builds) ==
    IF \E k \in 1..Len(builds) : builds[k].pc = "rejected" THEN "rejected"
    ELSE IF \A k \in 1..Len(builds) : builds[k].pc = "resolved" THEN "fulfilled"
    ELSE "pending"

\* (variant) the blocks in the reverse of the order of the files
NewBlocksReversed(builds) ==
    LET Resolved(bd) == bd.pc = "resolved"
        done == SelectSeq(builds, Resolved)
    IN  [k \in 1..Len(done) |-> done[Len(done) + 1 - k].result[1]]

\* the value Promise.all is fulfilled with: the blocks in the order of the files
NewBlocks(builds) ==
    LET Resolved(bd) == bd.pc = "resolved"
        done == SelectSeq(builds, Resolved)
    IN  [k \in 1..Len(done) |-> done[k].result[1]]

\* indices in builds of the resolved builds, in order
RECURSIVE ResolvedIdx(_, _)
ResolvedIdx(builds, k) ==
    IF k > Len(builds) THEN <<>>
    ELSE (IF builds[k].pc = "resolved" THEN <<k>> ELSE <<>>) \o ResolvedIdx(builds, k + 1)

\* (variant) a catch block that only logs
CatchSilently(t) == t

\* the handler's catch block: console.error and one toast
CatchToasts(t) == [t EXCEPT !.batchError = @ + 1]

\* fileToContentBlock's catch block around the upload: one toast per file
UploadCatchToasts(t) == [t EXCEPT !.uploadFailed = @ + 1]

\* number of files the handlers have been called with so far
RECURSIVE OfferedIn(_)
OfferedIn(bs) == IF bs = <<>> THEN 0 ELSE Len(Head(bs).files) + OfferedIn(Tail(bs))
Offered == OfferedIn(batches)

\* A handler from its call to its first await (or its return): partition, the
\* two aggregated notices, and the start of the builds of the unique files.
StartBatch(handler, files) ==
    LET invalidFiles == InvalidOf(files)
        duplicateFiles == DuplicateOf(handler, files, contentBlocks)
        uniqueFiles == UniqueOf(handler, files, contentBlocks)
        builds == [k \in 1..Len(uniqueFiles) |-> StartBuild(uniqueFiles[k])]
        nUnsupported == Cardinality({k \in 1..Len(builds) : builds[k].pc = "rejected"})
        joined == PromiseAll(builds)
        noticed == [NoToasts EXCEPT !.invalid = NoticeCount(invalidFiles),
                                    !.duplicate = NoticeCount(duplicateFiles),
                                    !.unsupported = nUnsupported]
        toasts == IF uniqueFiles # <<>> /\ joined = "rejected"
                  THEN CatchToasts(noticed) ELSE noticed
        batch == [ files |-> files,
                   before |-> contentBlocks, beforeOrigin |-> origin,
                   invalid |-> invalidFiles, duplicate |-> duplicateFiles,
                   unique |-> uniqueFiles, builds |-> builds,
                   pc |-> IF uniqueFiles = <<>> THEN "done"
                          ELSE IF joined = "rejected" THEN "aborted" ELSE "joining",
                   toasts |-> toasts ]
    IN  /\ batches' = Append(batches, batch)
        /\ UNCHANGED << contentBlocks, origin, resetAt >>

handleFileUpload(files) ==
    /\ StartBatch("select", files)
    /\ UNCHANGED << dragCounter, dragOver, routeVars, clockVars >>

handleWindowDrop(files) ==
    /\ dragCounter' = 0
    /\ dragOver' = FALSE
    /\ StartBatch("drop", files)
    /\ UNCHANGED << routeVars, clockVars >>

\* window dragenter; hasFiles is e.dataTransfer?.types?.includes("Files")
handleWindowDragEnter(hasFiles) ==
    /\ dragCounter < MaxDrag
    /\ IF hasFiles
       THEN dragCounter' = dragCounter + 1 /\ dragOver' = TRUE
       ELSE UNCHANGED << dragCounter, dragOver >>
    /\ UNCHANGED << contentBlocks, origin, batches, resetAt, routeVars, clockVars >>

handleWindowDragLeave(hasFiles) ==
    /\ IF hasFiles
       THEN IF dragCounter - 1 <= 0
            THEN dragOver' = FALSE /\ dragCounter' = 0
            ELSE dragCounter' = dragCounter - 1 /\ UNCHANGED dragOver
       ELSE UNCHANGED << dragCounter, dragOver >>
    /\ UNCHANGED << contentBlocks, origin, batches, resetAt, routeVars, clockVars >>

handleWindowDragEnd ==
    /\ dragCounter' = 0
    /\ dragOver' = FALSE
    /\ UNCHANGED << contentBlocks, origin, batches, resetAt, routeVars, clockVars >>

\* window dragover: preventDefault and stopPropagation only
handleWindowDragOver == UNCHANGED vars

\* The drop element's own listeners. They stop the propagation of the event,
\* so the window's listener does not run for an event they handle.
handleDragOver ==
    /\ dragOver' = TRUE
    /\ UNCHANGED << dragCounter, contentBlocks, origin, batches, resetAt, routeVars,
                    clockVars >>

handleDragEnter ==
    /\ dragOver' = TRUE
    /\ UNCHANGED << dragCounter, contentBlocks, origin, batches, resetAt, routeVars,
                    clockVars >>

handleDragLeave ==
    /\ dragOver' = FALSE
    /\ UNCHANGED << dragCounter, contentBlocks, origin, batches, resetAt, routeVars,
                    clockVars >>

handlePaste(files) ==
    /\ StartBatch("paste", files)
    /\ UNCHANGED << dragCounter, dragOver, routeVars, clockVars >>

\* The effect that registers the drag handlers depends on contentBlocks: each
\* setContentBlocks re-runs it, and its cleanup zeroes the counter.
EffectCleanup ==
    /\ dragCounter' = 0
    /\ UNCHANGED dragOver

\* (variant) a handler that appends each block as soon as its build resolves
SettleBuildPerFile(b, i, nb, t) ==
    LET old == batches[b]
        builds2 == [old.builds EXCEPT ![i] = nb]
        joined == IF old.pc = "joining" THEN PromiseAll(builds2) ELSE "over"
    IN  /\ batches' = [batches EXCEPT ![b] =
               [old EXCEPT !.builds = builds2,
                           !.pc = CASE joined = "fulfilled" -> "committed"
                                    [] joined = "rejected" -> "aborted"
                                    [] OTHER -> old.pc,
                           !.toasts = IF joined = "rejected" THEN CatchToasts(t) ELSE t]]
        /\ IF nb.pc = "resolved"
           THEN /\ contentBlocks' = contentBlocks \o <<nb.result[1]>>
                /\ origin' = origin \o <<[batch |-> b, idx |-> i]>>
                /\ EffectCleanup
           ELSE UNCHANGED << contentBlocks, origin, dragCounter, dragOver >>
        /\ UNCHANGED resetAt

\* A build of batch b settles as nb with the batch's toasts now t. The
\* handler's continuation after `await Promise.all(...)` runs in the same
\* turn: setContentBlocks((prev) => [...prev, ...newBlocks]) when the join is
\* fulfilled, the catch block with its toast when it is rejected.
SettleBuild(b, i, nb, t) ==
    LET old == batches[b]
        builds2 == [old.builds EXCEPT ![i] = nb]
        joined == IF old.pc = "joining" THEN PromiseAll(builds2) ELSE "over"
        idx == ResolvedIdx(builds2, 1)
    IN  /\ batches' = [batches EXCEPT ![b] =
               [old EXCEPT !.builds = builds2,
                           !.pc = CASE joined = "fulfilled" -> "committed"
                                    [] joined = "rejected" -> "aborted"
                                    [] OTHER -> old.pc,
                           !.toasts = IF joined = "rejected" THEN CatchToasts(t) ELSE t]]
        /\ IF joined = "fulfilled"
           THEN /\ contentBlocks' = contentBlocks \o NewBlocks(builds2)
                /\ origin' = origin \o [k \in 1..Len(idx) |-> [batch |-> b, idx |-> idx[k]]]
                /\ EffectCleanup
           ELSE UNCHANGED << contentBlocks, origin, dragCounter, dragOver >>
        /\ UNCHANGED resetAt

\* fileToBase64 of build i of batch b completes (ok) or fails, and
\* fileToContentBlock runs on to its return or to the upload's fetch.
FileReadDone(b, i, ok) ==
    LET batch == batches[b]
        bd == batch.builds[i]
        file == bd.file
        branch == BuildBranch(file)
    IN  /\ bd.pc = "reading"
        /\ IF ~ok
           THEN /\ SettleBuild(b, i, [bd EXCEPT !.pc = "rejected", !.reason = "read"],
                               batch.toasts)
                /\ UNCHANGED requests
           ELSE CASE branch = "image" ->
                       /\ SettleBuild(b, i, [bd EXCEPT !.pc = "resolved",
                                                       !.result = <<ImageBlock(file)>>],
                                      batch.toasts)
                       /\ UNCHANGED requests
                  [] branch = "pdf" ->
                       /\ SettleBuild(b, i, [bd EXCEPT !.pc = "resolved",
                                                       !.result = <<PdfBlock(file)>>],
                                      batch.toasts)
                       /\ UNCHANGED requests
                  [] branch = "upload" ->
                       /\ requests' = Append(requests,
                              [ parts |-> <<file>>, from |-> <<b, i>>, pc |-> "received",
                                status |-> 0, body |-> <<>>, key |-> <<>>,
                                uniqueId |-> "", puts |-> 0, threw |-> "" ])
                       /\ batches' = [batches EXCEPT
                              ![b].builds[i] = [bd EXCEPT !.pc = "uploading",
                                                          !.req = Len(requests) + 1],
                              ![b].toasts.info = @ + 1]
                       /\ UNCHANGED << contentBlocks, origin, dragCounter, dragOver,
                                       resetAt >>
                  [] OTHER ->
                       /\ SettleBuild(b, i, [bd EXCEPT !.pc = "rejected",
                                                       !.reason = "unexpected"],
                                      [batch.toasts EXCEPT !.unexpected = @ + 1])
                       /\ UNCHANGED requests
        /\ UNCHANGED << store, nextUuid, clockVars >>

\* uploadFileToS3's fetch returns the route's response to build i of batch b
FetchReturn(b, i) ==
    LET batch == batches[b]
        bd == batch.builds[i]
    IN  /\ bd.pc = "uploading"
        /\ requests[bd.req].pc = "responded"
        /\ IF requests[bd.req].status = 200
           THEN SettleBuild(b, i, [bd EXCEPT !.pc = "resolved",
                                             !.result = <<S3Block(requests[bd.req].body[1])>>],
                            [batch.toasts EXCEPT !.success = @ + 1])
           ELSE SettleBuild(b, i, [bd EXCEPT !.pc = "rejected", !.reason = "upload"],
                            UploadCatchToasts(batch.toasts))
        /\ UNCHANGED << routeVars, clockVars >>

\* uploadFileToS3's fetch throws: the connection failed. The route handles
\* a request independently of the hook, so a failure seen by the client
\* before the route has finished is the same to the hook as one seen after:
\* the action is taken once the route is through with the request.
FetchThrows(b, i) ==
    LET batch == batches[b]
        bd == batch.builds[i]
    IN  /\ bd.pc = "uploading"
        /\ requests[bd.req].pc = "responded"
        /\ SettleBuild(b, i, [bd EXCEPT !.pc = "rejected", !.reason = "upload"],
                       UploadCatchToasts(batch.toasts))
        /\ UNCHANGED << routeVars, clockVars >>

\* (variant) a removal of every block equal to the one at position idx
removeBlockByValue(idx) ==
    LET Other(x) == x # contentBlocks[idx + 1]
        keep == IF idx + 1 \in 1..Len(contentBlocks)
                THEN {k \in 1..Len(contentBlocks) : Other(contentBlocks[k])}
                ELSE 1..Len(contentBlocks)
        Kept(s) == LET RECURSIVE Pick(_)
                       Pick(k) == IF k > Len(s) THEN <<>>
                                  ELSE (IF k \in keep THEN <<s[k]>> ELSE <<>>) \o Pick(k + 1)
                   IN  Pick(1)
    IN  /\ contentBlocks' = Kept(contentBlocks)
        /\ origin' = Kept(origin)
        /\ EffectCleanup
        /\ UNCHANGED << batches, resetAt, routeVars, clockVars >>

\* setContentBlocks((prev) => prev.filter((_, i) => i !== idx))
removeBlock(idx) ==
    LET keep == {k \in 1..Len(contentBlocks) : k - 1 # idx}
        Kept(s) == LET RECURSIVE Pick(_)
                       Pick(k) == IF k > Len(s) THEN <<>>
                                  ELSE (IF k \in keep THEN <<s[k]>> ELSE <<>>) \o Pick(k + 1)
                   IN  Pick(1)
    IN  /\ contentBlocks' = Kept(contentBlocks)
        /\ origin' = Kept(origin)
        /\ EffectCleanup
        /\ UNCHANGED << batches, resetAt, routeVars, clockVars >>

resetBlocks ==
    /\ contentBlocks' = <<>>
    /\ origin' = <<>>
    /\ resetAt' = Len(batches)
    /\ EffectCleanup
    /\ UNCHANGED << batches, routeVars, clockVars >>

\* ------------------------------------------------------- POST /api/upload
ErrorBody(message) == [error |-> message]

Respond(req, status, body) == [req EXCEPT !.pc = "responded", !.status = status, !.body = <<body>>]

\* formData.get('file'), the two validations and the generation of the key,
\* with n the number of identifiers drawn so far plus one
Validated(req, n, date) ==
    IF req.parts = <<>>
    THEN Respond(req, 400, ErrorBody("No file provided"))
    ELSE IF ~PostAccepts(req.parts)
    THEN Respond(req, 400, ErrorBody("Only .dwg and .dxf files are supported"))
    ELSE [req EXCEPT !.pc = "keyed", !.uniqueId = uuidv4(n),
                     !.key = S3Key(date.year, padStart2(date.month0 + 1), uuidv4(n),
                                   fileExtensionOf(req.parts[1]))]

\* await file.arrayBuffer(): the bytes are read, or the read throws
Buffered(req, ok) ==
    IF ok THEN [req EXCEPT !.pc = "buffered"]
    ELSE Respond([req EXCEPT !.threw = "read"], 500, ErrorBody("Upload failed"))

\* (variant) a send whose failure is not noticed
SentUnchecked(req, ok, date) ==
    Respond([req EXCEPT !.puts = @ + 1, !.threw = IF ok THEN "" ELSE "send"], 200,
            UploadResult(req.parts[1], req.key, req.uniqueId, date))

\* await s3Client.send(uploadCommand) and the response: the result when the
\* put succeeded, the catch block's 500 when it threw
Sent(req, ok, date) ==
    IF ok
    THEN Respond([req EXCEPT !.puts = @ + 1], 200,
                 UploadResult(req.parts[1], req.key, req.uniqueId, date))
    ELSE Respond([req EXCEPT !.puts = @ + 1, !.threw = "send"], 500,
                 ErrorBody("Upload failed"))

\* the object a successful PutObjectCommand of request r creates
PutObject(r, req) ==
    [ Key |-> req.key, Bucket |-> BUCKET_NAME,
      ContentType |-> ContentTypeOf(req.parts[1]),
      originalName |-> req.parts[1].name, request |-> r ]

PostValidate(r) ==
    /\ requests[r].pc = "received"
    /\ requests' = [requests EXCEPT ![r] = Validated(@, nextUuid, now)]
    /\ nextUuid' = IF requests'[r].pc = "keyed" THEN nextUuid + 1 ELSE nextUuid
    /\ UNCHANGED << store, hookVars, clockVars >>

PostReadBytes(r, ok) ==
    /\ requests[r].pc = "keyed"
    /\ requests' = [requests EXCEPT ![r] = Buffered(@, ok)]
    /\ UNCHANGED << store, nextUuid, hookVars, clockVars >>

PostSend(r, ok) ==
    /\ requests[r].pc = "buffered"
    /\ requests' = [requests EXCEPT ![r] = Sent(@, ok, now)]
    /\ store' = IF ok THEN Append(store, PutObject(r, requests[r])) ELSE store
    /\ UNCHANGED << nextUuid, hookVars, clockVars >>

\* The whole POST handler for request r in one step, as the hook sees it:
\* the route shares no state with the hook, so the hook's specification
\* does not interleave the route's awaits with the hook's own steps.
POST(r, readOk, sendOk) ==
    LET v == Validated(requests[r], nextUuid, now)
        bf == IF v.pc = "keyed" THEN Buffered(v, readOk) ELSE v
        sn == IF bf.pc = "buffered" THEN Sent(bf, sendOk, now) ELSE bf
    IN  /\ requests[r].pc = "received"
        /\ requests' = [requests EXCEPT ![r] = sn]
        /\ nextUuid' = IF v.pc = "keyed" THEN nextUuid + 1 ELSE nextUuid
        /\ store' = IF bf.pc = "buffered" /\ sendOk
                    THEN Append(store, PutObject(r, bf)) ELSE store
        /\ UNCHANGED << hookVars, clockVars >>

\* a client other than the hook posts a form with or without a file part
ExternalPost(parts) ==
    /\ Len(requests) < MaxRequests
    /\ requests' = Append(requests,
           [ parts |-> parts, from |-> <<>>, pc |-> "received", status |-> 0,
             body |-> <<>>, key |-> <<>>, uniqueId |-> "", puts |-> 0, threw |-> "" ])
    /\ UNCHANGED << store, nextUuid, hookVars, clockVars >>

\* the server's clock passes into the next month
Tick ==
    /\ ticks < MaxTicks
    /\ ticks' = ticks + 1
    /\ now' = IF now.month0 = 11 THEN [year |-> now.year + 1, month0 |-> 0]
              ELSE [now EXCEPT !.month0 = @ + 1]
    /\ UNCHANGED << hookVars, routeVars >>

\* ------------------------------------------------------------ the hook
Next ==
    \/ \E files \in FileLists(Files, MaxFiles - Offered) : handleFileUpload(files)
    \/ \E files \in FileLists(Files, MaxFiles - Offered) : handleWindowDrop(files)
    \/ \E files \in FileLists(Files, MaxFiles - Offered) : handlePaste(files)
    \/ \E b \in 1..Len(batches) : \E i \in 1..Len(batches[b].builds) :
          \E ok \in BOOLEAN : FileReadDone(b, i, ok)
    \/ \E b \in 1..Len(batches) : \E i \in 1..Len(batches[b].builds) : FetchReturn(b, i)
    \/ \E b \in 1..Len(batches) : \E i \in 1..Len(batches[b].builds) : FetchThrows(b, i)
    \/ \E r \in 1..Len(requests) : \E sendOk \in BOOLEAN : POST(r, TRUE, sendOk)
    \/ \E idx \in -1..Len(contentBlocks) : removeBlock(idx)
    \/ resetBlocks

Spec == Init /\ [][Next]_vars

\* ----------------------------------- the hook mounted with initialBlocks
InitialBlocks == { <<ImageBlock(File(PNG_NAME, "image/png"))>> }

InitInitial ==
    /\ contentBlocks \in InitialBlocks
    /\ origin = [k \in 1..Len(contentBlocks) |-> [batch |-> 0, idx |-> k]]
    /\ batches = <<>>
    /\ requests = <<>>
    /\ store = <<>>
    /\ nextUuid = 1
    /\ now = [year |-> 2025, month0 |-> 8]
    /\ ticks = 0
    /\ dragCounter = 0
    /\ dragOver = FALSE
    /\ resetAt = -1

\* the lists of at most n files offered while no handler has been called yet
FirstLists(S, n) == FileLists(S, IF batches = <<>> THEN n ELSE 0)

\* the files offered to the mounted hook: the image it already holds, a CAD
\* drawing and an unsupported file
MixFiles ==
    { File(PNG_NAME, "image/png"), File(DWG_NAME, ""),
      File(EXE_NAME, "application/x-msdownload") }

\* one user action on the mounted hook, and nothing else from the user
NextInitial ==
    \/ \E files \in FirstLists(MixFiles, MaxBatchFiles) : handleFileUpload(files)
    \/ \E files \in FirstLists(MixFiles, MaxBatchFiles) : handleWindowDrop(files)
    \/ \E files \in FirstLists(MixFiles, MaxBatchFiles) : handlePaste(files)
    \/ \E b \in 1..Len(batches) : \E i \in 1..Len(batches[b].builds) :
          \E ok \in BOOLEAN : FileReadDone(b, i, ok)
    \/ \E b \in 1..Len(batches) : \E i \in 1..Len(batches[b].builds) : FetchReturn(b, i)
    \/ \E b \in 1..Len(batches) : \E i \in 1..Len(batches[b].builds) : FetchThrows(b, i)
    \/ \E r \in 1..Len(requests) : \E sendOk \in BOOLEAN : POST(r, TRUE, sendOk)

SpecInitial == InitInitial /\ [][NextInitial]_vars

\* ------------------------------------------------ one file of any kind
UPPER_DWG_NAME == <<"A", ".", "D", "W", "G">>
DXF_NAME == <<"b", ".", "d", "x", "f">>
TXT_NAME == <<"a", ".", "t", "x", "t">>
PY_NAME == <<"a", ".", "p", "y">>

WideNames == { PNG_NAME, PDF_NAME, DWG_NAME, UPPER_DWG_NAME, DXF_NAME, DWG,
               TXT_NAME, PY_NAME, EXE_NAME }

WideTypes == { "", "image/png", "application/pdf", "application/octet-stream",
               "text/plain", "text/x-python", "application/acad",
               "application/x-msdownload" }

AllFiles == {File(n, t) : n \in WideNames, t \in WideTypes}

\* the hook is given one file, of any name and declared type
NextWide ==
    \/ \E files \in FirstLists(AllFiles, 1) :
          handleFileUpload(files)
    \/ \E files \in FirstLists(AllFiles, 1) :
          handleWindowDrop(files)
    \/ \E files \in FirstLists(AllFiles, 1) :
          handlePaste(files)
    \/ \E b \in 1..Len(batches) : \E i \in 1..Len(batches[b].builds) :
          \E ok \in BOOLEAN : FileReadDone(b, i, ok)
    \/ \E b \in 1..Len(batches) : \E i \in 1..Len(batches[b].builds) : FetchReturn(b, i)
    \/ \E b \in 1..Len(batches) : \E i \in 1..Len(batches[b].builds) : FetchThrows(b, i)
    \/ \E r \in 1..Len(requests) : \E sendOk \in BOOLEAN : POST(r, TRUE, sendOk)
    \/ \E idx \in -1..Len(contentBlocks) : removeBlock(idx)
    \/ resetBlocks

SpecWide == Init /\ [][NextWide]_vars

\* ------------------------------------------- the same name, two kinds
\* files that share a name with a CAD extension but differ in declared type,
\* next to an image and a PDF
PasteFiles ==
    { File(DWG_NAME, "image/png"), File(DWG_NAME, ""),
      File(PNG_NAME, "image/png"), File(PDF_NAME, "application/pdf") }

NextPaste ==
    \/ \E files \in FileLists(PasteFiles, MaxFiles - Offered) : handleFileUpload(files)
    \/ \E files \in FileLists(PasteFiles, MaxFiles - Offered) : handleWindowDrop(files)
    \/ \E files \in FileLists(PasteFiles, MaxFiles - Offered) : handlePaste(files)
    \/ \E b \in 1..Len(batches) : \E i \in 1..Len(batches[b].builds) :
          \E ok \in BOOLEAN : FileReadDone(b, i, ok)
    \/ \E b \in 1..Len(batches) : \E i \in 1..Len(batches[b].builds) : FetchReturn(b, i)
    \/ \E b \in 1..Len(batches) : \E i \in 1..Len(batches[b].builds) : FetchThrows(b, i)
    \/ \E r \in 1..Len(requests) : \E sendOk \in BOOLEAN : POST(r, TRUE, sendOk)

SpecPaste == Init /\ [][NextPaste]_vars

\* ------------------------------------------------------ drag and drop
\* the drag events of the window and of the drop element, and one drop
NextDrag ==
    \/ \E hasFiles \in BOOLEAN : handleWindowDragEnter(hasFiles)
    \/ \E hasFiles \in BOOLEAN : handleWindowDragLeave(hasFiles)
    \/ handleWindowDragEnd
    \/ handleWindowDragOver
    \/ handleDragOver
    \/ handleDragEnter
    \/ handleDragLeave
    \/ \E files \in FirstLists(Files, MaxFiles) : handleWindowDrop(files)
    \/ \E b \in 1..Len(batches) : \E i \in 1..Len(batches[b].builds) :
          \E ok \in BOOLEAN : FileReadDone(b, i, ok)
    \/ \E b \in 1..Len(batches) : \E i \in 1..Len(batches[b].builds) : FetchReturn(b, i)
    \/ \E b \in 1..Len(batches) : \E i \in 1..Len(batches[b].builds) : FetchThrows(b, i)
    \/ \E r \in 1..Len(requests) : \E sendOk \in BOOLEAN : POST(r, TRUE, sendOk)

SpecDrag == Init /\ [][NextDrag]_vars

\* ------------------------------------------------------ the route alone
RouteFiles ==
    { File(DWG_NAME, ""), File(UPPER_DWG_NAME, "application/acad"),
      File(DXF_NAME, "text/plain"), File(PNG_NAME, "image/png"),
      File(DWG, "application/octet-stream") }

PostBodies == {<<>>} \cup {<<f>> : f \in RouteFiles}

NextRoute ==
    \/ \E parts \in PostBodies : ExternalPost(parts)
    \/ \E r \in 1..Len(requests) : PostValidate(r)
    \/ \E r \in 1..Len(requests) : \E ok \in BOOLEAN : PostReadBytes(r, ok)
    \/ \E r \in 1..Len(requests) : \E ok \in BOOLEAN : PostSend(r, ok)
    \/ Tick

SpecRoute == Init /\ [][NextRoute]_vars

\* ===================================================================
\* Properties
\* ===================================================================
Batches == 1..Len(batches)
Builds(b) == 1..Len(batches[b].builds)
AnyRejected(b) == \E k \in Builds(b) : batches[b].builds[k].pc = "rejected"
BlocksFrom(b) == {j \in 1..Len(origin) : origin[j].batch = b}

\* C1: all-or-nothing batch. A batch one of whose builds has rejected never
\* commits: it is aborted, and no block of the collection comes from it,
\* not even the block of a sibling file whose build succeeded.
AllOrNothing ==
    \A b \in Batches :
        AnyRejected(b) => batches[b].pc = "aborted" /\ BlocksFrom(b) = {}

\* a batch is aborted with one build rejected and a sibling build resolved
AllOrNothingWitness ==
    \E b \in Batches :
        /\ batches[b].pc = "aborted"
        /\ \E k, m \in Builds(b) :
              /\ batches[b].builds[k].pc = "rejected"
              /\ batches[b].builds[m].pc = "resolved"

\* the error toasts a batch has shown for failed builds
FailureNotices(b) ==
    LET t == batches[b].toasts
    IN  t.uploadFailed + t.batchError + t.unsupported + t.unexpected

\* batch b has at least two builds, all settled, of which exactly one was
\* rejected, by a failed upload
OneUploadFailed(b) ==
    /\ Len(batches[b].builds) >= 2
    /\ \E k \in Builds(b) :
          /\ batches[b].builds[k].pc = "rejected"
          /\ batches[b].builds[k].reason = "upload"
          /\ \A m \in Builds(b) \ {k} : batches[b].builds[m].pc = "resolved"

\* C2 as stated: one failed upload in a multi-file batch gives exactly one
\* failure notice.
OneFailureNotice ==
    \A b \in Batches : OneUploadFailed(b) => FailureNotices(b) = 1

\* C2 amended: it gives exactly two error toasts, the per-file "Failed to
\* upload" of fileToContentBlock and the per-batch "Error processing files"
\* of the handler.
TwoFailureNotices ==
    \A b \in Batches :
        OneUploadFailed(b) =>
            /\ batches[b].toasts.uploadFailed = 1
            /\ batches[b].toasts.batchError = 1
            /\ FailureNotices(b) = 2

\* a multi-file batch whose only failure is one upload has settled
TwoFailureNoticesWitness == \E b \in Batches : OneUploadFailed(b)

\* the name a block shows to the user: the original file name of a file
\* block, the display name of an image block
OriginalName(block) ==
    IF block.type = "image" THEN block.metadata.name
    ELSE IF block.source_type = "s3" THEN block.metadata.original_name
    ELSE block.metadata.filename

\* C3: the collection holds at most one file block per original file name
\* and at most one image block per display name.
NoDuplicateBlocks ==
    \A j, k \in 1..Len(contentBlocks) :
        (j < k /\ contentBlocks[j].type = contentBlocks[k].type)
            => OriginalName(contentBlocks[j]) # OriginalName(contentBlocks[k])

\* the file the block at position j of batch b's snapshot was built from,
\* as a sequence: empty for a block the hook was mounted with
SourceOf(b, j) ==
    LET o == batches[b].beforeOrigin[j]
    IN  IF o.batch = 0 THEN <<>> ELSE <<batches[o.batch].builds[o.idx].file>>

\* C4: a file added by a completed batch and offered again by a later batch
\* is classified as duplicate by the later batch: no build is started for it.
SequentialDuplicateRejected ==
    \A b \in Batches : \A k \in Builds(b) : \A j \in 1..Len(batches[b].before) :
        SourceOf(b, j) # <<batches[b].builds[k].file>>

\* C5: a file whose name is the original_name of a remote-reference block
\* of the collection is rejected as duplicate: no build is started for it.
RemoteDuplicateRejected ==
    \A b \in Batches : \A k \in Builds(b) : \A j \in 1..Len(batches[b].before) :
        LET block == batches[b].before[j]
        IN  (block.type = "file" /\ block.source_type = "s3")
                => block.metadata.original_name # batches[b].builds[k].file.name

\* the lower-cased name ends in .dwg or .dxf
HasCADExtension(name) ==
    endsWith(toLowerCase(name), DotDWG) \/ endsWith(toLowerCase(name), DotDXF)

\* C6: a file with a CAD extension is valid whatever its declared type, and
\* its build yields a remote-reference file block, never an inline block.
ExtensionFirst ==
    \A b \in Batches :
        /\ \A k \in 1..Len(batches[b].invalid) : ~HasCADExtension(batches[b].invalid[k].name)
        /\ \A k \in Builds(b) :
              LET bd == batches[b].builds[k]
              IN  (HasCADExtension(bd.file.name) /\ bd.pc = "resolved")
                      => bd.result[1].type = "file" /\ bd.result[1].source_type = "s3"

\* the files of batch b that are valid and not in the snapshot of the
\* collection the handler saw
ExpectedUnique(b) ==
    LET Wanted(f) == isValidFile(f) /\ ~isDuplicate(f, batches[b].before)
    IN  SelectSeq(batches[b].files, Wanted)

\* C7: invalid and duplicate files do not abort a batch. The batch shows at
\* most one invalid-type notice and at most one duplicate notice, builds
\* exactly its valid, non-duplicate files, and when all those builds have
\* succeeded the collection is what it was with exactly their blocks
\* appended, in the order of the files.
MixedBatch ==
    \A b \in Batches :
        /\ batches[b].toasts.invalid <= 1
        /\ batches[b].toasts.duplicate <= 1
        /\ [k \in Builds(b) |-> batches[b].builds[k].file] = ExpectedUnique(b)
        /\ Len(batches[b].invalid) + Len(batches[b].duplicate) + Len(batches[b].builds)
               = Len(batches[b].files)
        /\ (Builds(b) # {} /\ \A k \in Builds(b) : batches[b].builds[k].pc = "resolved")
               => /\ batches[b].pc = "committed"
                  /\ contentBlocks = batches[b].before \o
                         [k \in Builds(b) |-> batches[b].builds[k].result[1]]

\* a batch with an invalid, a duplicate and a unique file has committed
MixedBatchWitness ==
    \E b \in Batches :
        /\ batches[b].invalid # <<>>
        /\ batches[b].duplicate # <<>>
        /\ batches[b].pc = "committed"
        /\ BlocksFrom(b) # {}

Requests == 1..Len(requests)
StoredBy(r) == {j \in 1..Len(store) : store[j].request = r}
IsErrorBody(req) == DOMAIN req.body[1] = {"error"}
IsSuccessBody(req) ==
    DOMAIN req.body[1] = {"s3_key", "s3_bucket", "s3_region", "metadata"}

\* the POST has no file part, or a file without CAD extension
BadPost(req) == req.parts = <<>> \/ ~HasCADExtension(req.parts[1].name)

\* C8: a POST without file part or with a file that has no CAD extension is
\* answered 400 with an error body, and no put is attempted for it.
UploadValidation ==
    \A r \in Requests :
        BadPost(requests[r]) =>
            /\ requests[r].puts = 0
            /\ StoredBy(r) = {}
            /\ requests[r].pc \in {"received", "responded"}
            /\ requests[r].pc = "responded"
                   => requests[r].status = 400 /\ IsErrorBody(requests[r])

\* both kinds of bad POST have been answered
UploadValidationWitness ==
    /\ \E r \in Requests : requests[r].pc = "responded" /\ requests[r].parts = <<>>
    /\ \E r \in Requests :
          /\ requests[r].pc = "responded"
          /\ requests[r].parts # <<>>
          /\ ~HasCADExtension(requests[r].parts[1].name)

\* what C9 says of an answered POST apart from the number of puts
OutcomeOf(req, r) ==
    /\ req.status \in {200, 500}
    /\ req.status = 200 <=> req.threw = ""
    /\ req.status = 200 =>
          /\ IsSuccessBody(req)
          /\ Cardinality(StoredBy(r)) = 1
          /\ \A j \in StoredBy(r) : store[j].Key = req.body[1].s3_key
    /\ req.status = 500 => IsErrorBody(req) /\ StoredBy(r) = {}

\* C9 as stated: every accepted POST attempts exactly one put; success is
\* answered only after the put succeeded, a failed read or put with 500.
UploadOutcomeOnePut ==
    \A r \in Requests :
        (~BadPost(requests[r]) /\ requests[r].pc = "responded")
            => requests[r].puts = 1 /\ OutcomeOf(requests[r], r)

\* C9 amended: an accepted POST attempts at most one put, exactly one when
\* the file's bytes were read and none when reading them failed; the rest
\* as stated.
UploadOutcome ==
    \A r \in Requests :
        ~BadPost(requests[r]) =>
            /\ requests[r].pc # "responded" => requests[r].puts = 0 /\ StoredBy(r) = {}
            /\ requests[r].pc = "responded" =>
                  /\ requests[r].puts = IF requests[r].threw = "read" THEN 0 ELSE 1
                  /\ OutcomeOf(requests[r], r)

\* one accepted POST has failed reading its bytes and was answered 500
\* without a put, another has put its object and was answered 200
UploadOutcomeWitness ==
    \E r, q \in Requests :
        /\ ~BadPost(requests[r]) /\ requests[r].pc = "responded"
        /\ requests[r].threw = "read" /\ requests[r].puts = 0
        /\ requests[q].pc = "responded" /\ requests[q].status = 200

\* the key has the shape user-uploads/drawings/<year>/<2-digit month>/<id>.<ext>
\* with id the identifier drawn for the upload
KeyShape(key, id) ==
    /\ Len(key) = 5
    /\ key[1] = "user-uploads" /\ key[2] = "drawings"
    /\ key[3] \in 1000..9999
    /\ Len(key[4]) = 2 /\ key[4][1] \in 0..1 /\ key[4][2] \in 0..9
    /\ 10 * key[4][1] + key[4][2] \in 1..12
    /\ \E ext \in {DWG, DXF} : key[5] = <<id, ".">> \o ext

\* C10: the keys of the objects put are pairwise distinct, each of the
\* stated shape, and the filename of the response's metadata is the key's
\* last segment.
StoreKeysUnique ==
    /\ \A j, k \in 1..Len(store) : j # k => store[j].Key # store[k].Key
    /\ \A j \in 1..Len(store) :
          KeyShape(store[j].Key, requests[store[j].request].uniqueId)
    /\ \A r \in Requests :
          (requests[r].pc = "responded" /\ requests[r].status = 200) =>
              /\ requests[r].body[1].metadata.filename = requests[r].body[1].s3_key[5]
              /\ KeyShape(requests[r].body[1].s3_key, requests[r].uniqueId)

\* two files of the same name have been stored in the same month
StoreKeysUniqueWitness ==
    \E j, k \in 1..Len(store) :
        /\ j # k
        /\ store[j].originalName = store[k].originalName
        /\ store[j].Key[3] = store[k].Key[3]
        /\ store[j].Key[4] = store[k].Key[4]

CommitStep(b) == batches[b].pc = "joining" /\ batches'[b].pc = "committed"

\* C12: arrival order. The step that commits a batch appends its blocks
\* after the blocks the collection holds at that moment, one block per
\* unique file and in the order of the unique files, whatever the order in
\* which the builds completed.
ArrivalOrder ==
    [][\A b \in Batches :
          CommitStep(b) =>
              /\ Len(contentBlocks') = Len(contentBlocks) + Len(batches[b].unique)
              /\ SubSeq(contentBlocks', 1, Len(contentBlocks)) = contentBlocks
              /\ \A k \in 1..Len(batches[b].unique) :
                    LET block == contentBlocks'[Len(contentBlocks) + k]
                    IN  /\ block = batches'[b].builds[k].result[1]
                        /\ batches'[b].builds[k].file = batches[b].unique[k]
                        /\ OriginalName(block) = batches[b].unique[k].name]_vars

\* a batch of two uploaded files has committed its blocks in the order of
\* the files although the store received the second file first
ArrivalOrderWitness ==
    \E b \in Batches :
        /\ batches[b].pc = "committed"
        /\ Len(batches[b].builds) = 2
        /\ Len(store) = 2
        /\ store[1].request = batches[b].builds[2].req
        /\ store[2].request = batches[b].builds[1].req
        /\ contentBlocks = <<batches[b].builds[1].result[1], batches[b].builds[2].result[1]>>

\* the builds of batch b whose block is in the collection o records
IdxIn(o, b) == {o[j].idx : j \in {i \in 1..Len(o) : o[i].batch = b}}

\* C13 as stated: a batch that has not committed has no block in the
\* collection, and no state has a proper non-empty subset of a batch's
\* blocks in the collection.
SingleCommitNoSubset ==
    \A b \in Batches :
        /\ batches[b].pc # "committed" => IdxIn(origin, b) = {}
        /\ IdxIn(origin, b) = {} \/ IdxIn(origin, b) = Builds(b)

\* C13 amended: the blocks of a batch enter the collection in one step, the
\* step that commits the batch, taken once and only when every build of the
\* batch has resolved, and that step appends all of them; afterwards they
\* leave it only by removeBlock or resetBlocks, which is the only way a
\* proper non-empty subset of them is in the collection.
SingleCommit ==
    [][\A b \in 1..Len(batches') :
          LET was == IdxIn(origin, b)
              is == IdxIn(origin', b)
          IN  /\ (b \in Batches /\ batches[b].pc = "committed")
                     => batches'[b].pc = "committed"
              /\ (b \in Batches /\ CommitStep(b)) => is # was
              /\ is # was =>
                    \/ /\ b \in Batches
                       /\ CommitStep(b)
                       /\ was = {}
                       /\ is = Builds(b)
                       /\ \A k \in Builds(b) : batches'[b].builds[k].pc = "resolved"
                       /\ contentBlocks' = contentBlocks \o
                              [k \in Builds(b) |-> batches'[b].builds[k].result[1]]
                    \/ /\ is \subseteq was
                       /\ batches' = batches
                       /\ Len(contentBlocks') < Len(contentBlocks)]_vars

\* a batch of two files has committed and both its blocks are in the collection
SingleCommitWitness ==
    \E b \in Batches :
        /\ batches[b].pc = "committed"
        /\ Len(batches[b].builds) = 2
        /\ IdxIn(origin, b) = {1, 2}
        /\ Len(contentBlocks) = 2

\* C14: the drag-hover state. The counter of window enters and leaves is
\* never negative, and dragOver is true exactly when it is greater than zero.
DragHover ==
    /\ dragCounter >= 0
    /\ dragOver <=> dragCounter > 0

S3Fields == {"s3_key", "s3_bucket", "s3_region"}
InlineOnly(block) ==
    /\ block.source_type = "base64"
    /\ "data" \in DOMAIN block
    /\ DOMAIN block \cap S3Fields = {}
StoreOnly(block) ==
    /\ block.source_type = "s3"
    /\ S3Fields \subseteq DOMAIN block
    /\ "data" \notin DOMAIN block

\* C15: every block built populates exactly one of inline data and store
\* reference: image and PDF blocks are inline only, the blocks of uploaded
\* (CAD, code) files are store references only.
ExactlyOneSource ==
    \A b \in Batches : \A k \in Builds(b) :
        LET bd == batches[b].builds[k]
            block == bd.result[1]
        IN  bd.pc = "resolved" =>
                /\ InlineOnly(block) # StoreOnly(block)
                /\ block.type = "image" => InlineOnly(block)
                /\ (block.type = "file" /\ Get(block, "mime_type") = "application/pdf")
                       => InlineOnly(block)
                /\ bd.req # 0 => StoreOnly(block)
                /\ bd.req = 0 => InlineOnly(block)

\* a file with CAD extension and declared type text/plain has been uploaded
\* and its block built
ExactlyOneSourceWitness ==
    \E b \in Batches : \E k \in Builds(b) :
        /\ batches[b].builds[k].pc = "resolved"
        /\ batches[b].builds[k].file.type = "text/plain"
        /\ batches[b].builds[k].result[1].source_type = "s3"
        /\ batches[b].pc = "committed"

\* the media type a block records
RecordedMime(block) ==
    IF block.source_type = "s3" THEN block.metadata.mime_type ELSE block.mime_type

\* the media type of the extension: .dwg gives application/acad, .dxf
\* application/dxf
ExtensionMime(name) ==
    IF endsWith(toLowerCase(name), DotDWG) THEN "application/acad" ELSE "application/dxf"

\* C16: the block built for a file with CAD extension whose declared media
\* type is empty or text/plain records the media type of the extension, in
\* the inline variant and in the object-store variant.
MediaTypeFallback ==
    \A b \in Batches : \A k \in Builds(b) :
        LET bd == batches[b].builds[k]
        IN  (HasCADExtension(bd.file.name) /\ bd.file.type \in {"", "text/plain"}) =>
                /\ inlineMimeType(bd.file) = ExtensionMime(bd.file.name)
                /\ bd.pc = "resolved" =>
                       RecordedMime(bd.result[1]) = ExtensionMime(bd.file.name)

\* C17: a file isValidFile accepts is never rejected by the builder as
\* unsupported or unexpected, and its upload is never answered 400.
ValidatorBuilderAgreement ==
    \A b \in Batches : \A k \in Builds(b) :
        LET bd == batches[b].builds[k]
        IN  /\ ~(bd.pc = "rejected" /\ bd.reason \in {"unsupported", "unexpected"})
            /\ (bd.req # 0 /\ requests[bd.req].pc = "responded")
                   => requests[bd.req].status # 400

\* C18: after resetBlocks the collection holds no block of a batch started
\* before the reset.
ResetFinal == \A j \in 1..Len(origin) : origin[j].batch > resetAt

\* the objects in the store that uploads of batch b have put
ObjectsOf(b) ==
    {j \in 1..Len(store) : requests[store[j].request].from # <<>>
                              /\ requests[store[j].request].from[1] = b}

\* C19: once a batch has finished, every object its uploads have put is the
\* one a block of the batch refers to, and an aborted batch has put none.
NoOrphans ==
    \A b \in Batches :
        /\ batches[b].pc = "aborted" => ObjectsOf(b) = {}
        /\ batches[b].pc = "committed" =>
              \A j \in ObjectsOf(b) : \E k \in Builds(b) :
                  /\ batches[b].builds[k].result[1].source_type = "s3"
                  /\ batches[b].builds[k].result[1].s3_key = store[j].Key

\* C20: for every file offered and the collection it is offered to, the
\* paste path's duplicate test gives what the select/drop path's gives.
SamePolicy ==
    \A b \in Batches : \A k \in 1..Len(batches[b].files) :
        isDuplicatePaste(batches[b].files[k], batches[b].before)
            <=> isDuplicate(batches[b].files[k], batches[b].before)

====
